---- MODULE Spec2Model ----
(***************************************************************************)
(* A model of the Lagos agent: the JSON-RPC server of                      *)
(* neovim-plugin/python/lagos_rpc_server.py (LagosRPCServer) and the tool  *)
(* layer of src/main.py (tool_ui, is_path_permitted, read_file,            *)
(* list_files, edit_file).                                                 *)
(*                                                                         *)
(* Spec      : the read loop of LagosRPCServer.run, one action per line.   *)
(* SpecTools : one action per tool invocation through tool_ui's wrapper.   *)
(***************************************************************************)
EXTENDS Integers, Sequences, FiniteSets, TLC

VARIABLES
    history,           \* self.agent.history: sequence of [role, text]
    current_buffer,    \* self.current_buffer (a JSON value, JNull for None)
    visual_selection,  \* self.visual_selection (a JSON value, JNull for None)
    running,           \* the read loop of run() has not left its for loop
    exitCode,          \* 0, or 1 after sys.exit(1)
    request,           \* the value json.loads gave for the last line handled
    outcome,           \* what generate_content did during the last line
    response,          \* the response printed for the last line (kind "none": nothing printed)
    history0,          \* history when the last line was read
    buffer0,           \* current_buffer when the last line was read
    selection0,        \* visual_selection when the last line was read
    toolCall,          \* the last tool invocation made through a tool_ui wrapper
    toolReturn,        \* what the wrapper returned to its caller
    toolRaised,        \* the wrapper raised to its caller instead of returning
    fsAccess,          \* resolved paths handed to read_text / os.listdir
    agent_history,     \* self.history of the Agent that main() runs
    agentRunning       \* Agent.run() has not been left

vars == <<history, current_buffer, visual_selection, running, exitCode,
          request, outcome, response, history0, buffer0, selection0,
          toolCall, toolReturn, toolRaised, fsAccess,
          agent_history, agentRunning>>

rpcVars == <<history, current_buffer, visual_selection, running, exitCode,
             request, outcome, response, history0, buffer0, selection0>>

toolVars == <<toolCall, toolReturn, toolRaised, fsAccess>>

agentVars == <<agent_history, agentRunning>>

----------------------------------------------------------------------------
(* Bounds *)

\* Longest history the model lets a handler build.
MaxHist == 2

\* Longest history the interactive loop and the chat handler build side by side.
MaxTurns == 4

\* Longest path argument, in components.
MaxPathLen == 3

----------------------------------------------------------------------------
(* JSON values as Python sees them after json.loads *)

JMissing == [t |-> "missing", s |-> ""]   \* key absent from the dict
JNull    == [t |-> "null", s |-> ""]      \* None
JStr(x)  == [t |-> "str", s |-> x]
JObj(nm) == [t |-> "obj", s |-> nm]       \* {"name": nm, ...}
JObjNoName == [t |-> "objNoName", s |-> ""]  \* a non-empty dict without "name"

\* dict.get(key, default) on an already looked-up slot
Get(v, default) == IF v.t = "missing" THEN default ELSE v

\* Python truthiness (`if x:` / `not x`)
Truthy(v) ==
    CASE v.t = "str"       -> v.s # ""
      [] v.t = "obj"       -> TRUE
      [] v.t = "objNoName" -> TRUE
      [] OTHER             -> FALSE

\* f"{v}" for the values used in messages
Fmt(v) == IF v.t = "null" THEN "None" ELSE v.s

----------------------------------------------------------------------------
(* Requests, model outcomes and responses *)

\* request.get("id"): None when the request has no id field
RespId(id) == IF id = "absent" THEN "null" ELSE id

NoParams == [message |-> JMissing, code |-> JMissing, language |-> JMissing,
             error |-> JMissing, instruction |-> JMissing,
             buffer |-> JMissing, selection |-> JMissing]

\* request.get("params", {}): kind "absent" reads as the empty dict,
\* kind "nondict" is any JSON value without a .get (null, a string, a list)
ParamsDict(d) == [kind |-> "dict", d |-> d]
ParamsAbsent  == [kind |-> "absent", d |-> NoParams]
ParamsNonDict == [kind |-> "nondict", d |-> NoParams]

\* A parsed line: shape "object" is a JSON object, shape "other" any other
\* JSON value (a list, a number, a string, null)
Req(method, params, id) ==
    [shape |-> "object", method |-> method, params |-> params, id |-> id]
NonObjectReq ==
    [shape |-> "other", method |-> "absent", params |-> ParamsAbsent, id |-> "absent"]
NoRequest ==
    [shape |-> "none", method |-> "absent", params |-> ParamsAbsent, id |-> "absent"]

\* A line json.loads rejects with JSONDecodeError
MalformedLineReq ==
    [shape |-> "malformed", method |-> "absent", params |-> ParamsAbsent, id |-> "absent"]

\* A line that is empty after strip()
BlankLineReq ==
    [shape |-> "blank", method |-> "absent", params |-> ParamsAbsent, id |-> "absent"]

TextPart(x) == [text |-> x, fc |-> ""]
CallPart(f) == [text |-> "", fc |-> f]

\* What self.client.models.generate_content does
ModelRaises  == [kind |-> "raise", parts |-> <<>>]     \* the call raises
NoCandidates == [kind |-> "nocand", parts |-> <<>>]    \* response.candidates is empty or None
NoPartList   == [kind |-> "noparts", parts |-> <<>>]   \* candidates[0].content.parts is None
Candidate(p) == [kind |-> "parts", parts |-> p]
NotCalled    == [kind |-> "notcalled", parts |-> <<>>]

\* KeyboardInterrupt arrives while the line is handled (for a chat: while
\* generate_content is in progress)
Interrupt == [kind |-> "interrupt", parts |-> <<>>]

NoResponse ==
    [kind |-> "none", id |-> "null", code |-> 0, text |-> "", data |-> FALSE,
     keys |-> "none", tool_calls |-> <<>>, turns |-> <<>>]

\* {"jsonrpc": "2.0", "id": id, "error": {"code": code, "message": msg[, "data": ...]}}
ErrorResponse(id, code, msg, data) ==
    [kind |-> "error", id |-> id, code |-> code, text |-> msg, data |-> data,
     keys |-> "error", tool_calls |-> <<>>, turns |-> <<>>]

\* {"result": {"response": text, "type": "text", "tool_calls": calls}}
ChatResult(id, text, calls) ==
    [kind |-> "result", id |-> id, code |-> 0, text |-> text, data |-> FALSE,
     keys |-> "response,type,tool_calls", tool_calls |-> calls, turns |-> <<>>]

\* {"result": {"response": "No response from AI", "type": "text"}}
NoResponseResult(id) ==
    [kind |-> "result", id |-> id, code |-> 0, text |-> "No response from AI",
     data |-> FALSE, keys |-> "response,type", tool_calls |-> <<>>, turns |-> <<>>]

\* {"result": {"status": "ok"}}
StatusOk(id) ==
    [kind |-> "result", id |-> id, code |-> 0, text |-> "ok", data |-> FALSE,
     keys |-> "status", tool_calls |-> <<>>, turns |-> <<>>]

\* {"result": {"history": turns}}
HistoryResult(id, turns) ==
    [kind |-> "result", id |-> id, code |-> 0, text |-> "", data |-> FALSE,
     keys |-> "history", tool_calls |-> <<>>, turns |-> turns]

Turn(role, text) == [role |-> role, text |-> text]

\* What a handler leaves behind: the server state, the value it returns,
\* and whether it raised instead of returning
\* (exc: an Exception; intr: KeyboardInterrupt, which is no Exception)
Returned(h, b, s, resp) ==
    [hist |-> h, buf |-> b, sel |-> s, resp |-> resp, exc |-> FALSE, intr |-> FALSE]
Raised(h, b, s) ==
    [hist |-> h, buf |-> b, sel |-> s, resp |-> NoResponse, exc |-> TRUE, intr |-> FALSE]
Interrupted(h, b, s) ==
    [hist |-> h, buf |-> b, sel |-> s, resp |-> NoResponse, exc |-> FALSE, intr |-> TRUE]

----------------------------------------------------------------------------
(* LagosRPCServer._handle_chat *)

\* A check that only catches None
MessageRequired_NoneOnly(message) == message.t = "null"

\* `if not message:` (line 151)
MessageRequired(message) == ~Truthy(message)

\* `if self.current_buffer:` ... self.current_buffer['name'] (lines 159-160)
BufferPrefix(buf) == "[Current buffer: " \o buf.s \o "]\n"

\* `if self.visual_selection:` (lines 162-163)
SelectionPrefix(sel) == "[Selected text:\n" \o Fmt(sel) \o "\n]\n"

WithBuffer(buf, message) ==
    IF Truthy(buf) THEN BufferPrefix(buf) \o message ELSE message

WithSelection(sel, message) ==
    IF Truthy(sel) THEN SelectionPrefix(sel) \o message ELSE message

\* The message appended to history (lines 158-163)
ContextMessage(buf, sel, message) == WithSelection(sel, WithBuffer(buf, message))

\* The loop over parts (lines 194-206): the text gathered
RECURSIVE ResponseText(_)
ResponseText(parts) ==
    IF parts = <<>> THEN ""
    ELSE Head(parts).text \o ResponseText(Tail(parts))

\* The loop over parts (lines 194-206): the tool calls gathered
RECURSIVE ToolCalls(_)
ToolCalls(parts) ==
    IF parts = <<>> THEN <<>>
    ELSE IF Head(parts).text = "" /\ Head(parts).fc # ""
         THEN <<Head(parts).fc>> \o ToolCalls(Tail(parts))
         ELSE ToolCalls(Tail(parts))

\* The check left out
CandidatesEmpty_Never(out) == FALSE

\* `if not response.candidates:` (line 185)
CandidatesEmpty(out) == out.kind = "nocand"

\* A bare except clause, which catches KeyboardInterrupt too
CaughtByExcept_Bare(out) == out.kind \in {"raise", "interrupt"}

\* `except Exception as e:` (line 226) around the model call
CaughtByExcept(out) == out.kind = "raise"

\* A model turn put in front of the history
AppendModelTurn_Front(h, text) == <<Turn("model", text)>> \o h

\* The history after the candidate's parts were read (lines 208-214)
AppendModelTurn(h, text) == Append(h, Turn("model", text))

\* Lines 173-231: the model call and what follows it, h already holding the
\* user turn. Without candidates[0].content.parts the loop over parts raises
\* inside the try, and the except clause answers
GenerateResponse(h, b, s, id, out) ==
    IF out.kind = "interrupt" /\ ~CaughtByExcept(out)
    THEN Interrupted(h, b, s)
    ELSE IF CaughtByExcept(out)
    THEN Returned(h, b, s, ErrorResponse(id, -32603, "model call failed", FALSE))
    ELSE IF CandidatesEmpty(out)
    THEN Returned(h, b, s, NoResponseResult(id))
    ELSE IF out.kind # "parts"
    THEN Returned(h, b, s,
                  ErrorResponse(id, -32603, "object is not iterable", FALSE))
    ELSE Returned(AppendModelTurn(h, ResponseText(out.parts)), b, s,
                  ChatResult(id, ResponseText(out.parts), ToolCalls(out.parts)))

\* A lookup that tolerates a missing key
BufferNameMissing_Tolerant(b) == FALSE

\* self.current_buffer['name'] (line 160) raises: the stored buffer is truthy
\* and has no "name"
BufferNameMissing(b) == Truthy(b) /\ b.t # "obj"

\* _handle_chat(params, request_id) (lines 148-231)
HandleChat(h, b, s, params, id, out) ==
    IF params.kind = "nondict"
    THEN Raised(h, b, s)                       \* params.get: AttributeError
    ELSE LET message == Get(params.d.message, JStr("")) IN
         IF MessageRequired(message)
         THEN Returned(h, b, s, ErrorResponse(id, -32602, "Message is required", FALSE))
         ELSE IF BufferNameMissing(b)
         THEN Raised(h, b, s)                  \* self.current_buffer['name']: KeyError
         ELSE GenerateResponse(
                  Append(h, Turn("user", ContextMessage(b, s, message.s))),
                  b, s, id, out)

----------------------------------------------------------------------------
(* The other handlers *)

\* _handle_ask (lines 233-235)
HandleAsk(h, b, s, params, id, out) == HandleChat(h, b, s, params, id, out)

\* The message _handle_explain builds (lines 239-242)
ExplainMessage(d) ==
    "Please explain this " \o Fmt(Get(d.language, JStr("unknown")))
        \o " code:\n\n" \o Fmt(Get(d.code, JStr("")))

\* The message _handle_fix builds (lines 247-254)
FixMessage(d) ==
    "Please fix this " \o Fmt(Get(d.language, JStr("unknown"))) \o " code"
        \o (IF Truthy(Get(d.error, JStr("")))
            THEN " that has this error: " \o Fmt(d.error) ELSE "")
        \o ":\n\n" \o Fmt(Get(d.code, JStr("")))

\* The message _handle_refactor builds (lines 260-264)
RefactorMessage(d) ==
    "Please refactor this " \o Fmt(Get(d.language, JStr("unknown")))
        \o " code to " \o Fmt(Get(d.instruction, JStr("refactor this code")))
        \o ":\n\n" \o Fmt(Get(d.code, JStr("")))

\* self._handle_chat({"message": message}, request_id)
ChatWith(h, b, s, message, id, out) ==
    HandleChat(h, b, s, ParamsDict([NoParams EXCEPT !.message = JStr(message)]), id, out)

\* The code sent as it is, without the template
HandleExplain_RawCode(h, b, s, params, id, out) ==
    IF params.kind = "nondict" THEN Raised(h, b, s)
    ELSE ChatWith(h, b, s, Fmt(Get(params.d.code, JStr(""))), id, out)

\* _handle_explain (lines 237-243)
HandleExplain(h, b, s, params, id, out) ==
    IF params.kind = "nondict" THEN Raised(h, b, s)
    ELSE ChatWith(h, b, s, ExplainMessage(params.d), id, out)

\* _handle_fix (lines 245-256)
HandleFix(h, b, s, params, id, out) ==
    IF params.kind = "nondict" THEN Raised(h, b, s)
    ELSE ChatWith(h, b, s, FixMessage(params.d), id, out)

\* _handle_refactor (lines 258-265)
HandleRefactor(h, b, s, params, id, out) ==
    IF params.kind = "nondict" THEN Raised(h, b, s)
    ELSE ChatWith(h, b, s, RefactorMessage(params.d), id, out)

\* A field absent from params keeps its stored value
HandleSetContext_Merge(h, b, s, params, id) ==
    IF params.kind = "nondict" THEN Raised(h, b, s)
    ELSE Returned(h, Get(params.d.buffer, b), Get(params.d.selection, s), StatusOk(id))

\* _handle_set_context (lines 267-272)
HandleSetContext(h, b, s, params, id) ==
    IF params.kind = "nondict" THEN Raised(h, b, s)
    ELSE Returned(h, Get(params.d.buffer, JNull), Get(params.d.selection, JNull),
                  StatusOk(id))

\* _handle_get_history (lines 274-285): each turn holds one text part
HandleGetHistory(h, b, s, id) ==
    Returned(h, b, s, HistoryResult(id, [i \in 1..Len(h) |-> Turn(h[i].role, h[i].text)]))

\* Only the latest turn is dropped
HandleClearHistory_DropLast(h, b, s, id) ==
    Returned(IF h = <<>> THEN h ELSE SubSeq(h, 1, Len(h) - 1), b, s, StatusOk(id))

\* _handle_clear_history (lines 287-290)
HandleClearHistory(h, b, s, id) == Returned(<<>>, b, s, StatusOk(id))

----------------------------------------------------------------------------
(* LagosRPCServer.handle_request *)

ChatMethods == {"chat", "ask", "explain", "fix", "refactor"}

\* An except clause that answers without reading the id
InternalErrorId_Null(req) == "null"

\* The id the except clause reads with request.get("id") (line 140)
InternalErrorId(req) == RespId(req.id)

\* The except clause (lines 137-146); on a request that is no dict its own
\* request.get raises again
InternalError(h, b, s, req) ==
    IF req.shape # "object" THEN Raised(h, b, s)
    ELSE Returned(h, b, s, ErrorResponse(InternalErrorId(req), -32603, "Internal error", TRUE))

\* The unknown method answered as an internal error
MethodNotFound_Internal(h, b, s, id) ==
    Returned(h, b, s, ErrorResponse(id, -32603, "Internal error", FALSE))

\* The else branch (lines 130-135)
MethodNotFound(h, b, s, id) ==
    Returned(h, b, s, ErrorResponse(id, -32601, "Method not found", FALSE))

\* The if/elif chain (lines 114-135)
Dispatch(h, b, s, req, out) ==
    LET id == RespId(req.id) IN
    CASE req.method = "chat"          -> HandleChat(h, b, s, req.params, id, out)
      [] req.method = "ask"           -> HandleAsk(h, b, s, req.params, id, out)
      [] req.method = "explain"       -> HandleExplain(h, b, s, req.params, id, out)
      [] req.method = "fix"           -> HandleFix(h, b, s, req.params, id, out)
      [] req.method = "refactor"      -> HandleRefactor(h, b, s, req.params, id, out)
      [] req.method = "set_context"   -> HandleSetContext(h, b, s, req.params, id)
      [] req.method = "get_history"   -> HandleGetHistory(h, b, s, id)
      [] req.method = "clear_history" -> HandleClearHistory(h, b, s, id)
      [] OTHER -> MethodNotFound(h, b, s, id)

\* handle_request (lines 107-146)
HandleRequest(h, b, s, req, out) ==
    IF req.shape # "object"
    THEN InternalError(h, b, s, req)           \* request.get: AttributeError
    ELSE LET r == Dispatch(h, b, s, req, out) IN
         IF r.exc THEN InternalError(r.hist, r.buf, r.sel, req) ELSE r

----------------------------------------------------------------------------
(* Inputs *)

Ids == {"absent", "i1"}

Messages == {"hi"}

ChatParams ==
    {ParamsAbsent, ParamsNonDict, ParamsDict(NoParams),
     ParamsDict([NoParams EXCEPT !.message = JStr("")]),
     ParamsDict([NoParams EXCEPT !.message = JNull])}
    \cup {ParamsDict([NoParams EXCEPT !.message = JStr(m)]) : m \in Messages}

CodeParams ==
    {ParamsNonDict, ParamsDict([NoParams EXCEPT !.code = JStr("x")])}

FixParams ==
    {ParamsNonDict, ParamsDict([NoParams EXCEPT !.code = JStr("x"), !.error = JStr("E")])}

Buffers == {JMissing, JObj("a.py"), JObjNoName}

Selections == {JMissing, JStr("sel")}

ContextParams ==
    {ParamsNonDict}
    \cup {ParamsDict([NoParams EXCEPT !.buffer = bf, !.selection = sl]) :
            bf \in Buffers, sl \in Selections}

Parts == {<<TextPart("ok")>>, <<CallPart("read_file")>>,
          <<TextPart("ok"), CallPart("read_file")>>}

Outcomes ==
    {ModelRaises, NoCandidates, NoPartList, Interrupt} \cup {Candidate(p) : p \in Parts}

\* Whether handling req reaches the generate_content call (line 175)
CallsModel(b, req) ==
    /\ req.shape = "object"
    /\ req.method \in ChatMethods
    /\ req.params.kind # "nondict"
    /\ req.method \in {"chat", "ask"} =>
           ~MessageRequired(Get(req.params.d.message, JStr("")))
    /\ ~BufferNameMissing(b)

----------------------------------------------------------------------------
(* Paths: pathlib as is_path_permitted uses it *)

\* Path.cwd().resolve(): the project root, as path components
Cwd == <<"home", "proj">>

Names == {"home", "proj", "proj2", "a.txt", ".."}

\* A path argument: absolute or relative, and its components
PathArg(abs, comps) == [abs |-> abs, comps |-> comps]

RECURSIVE SeqsUpTo(_)
SeqsUpTo(n) ==
    IF n = 0 THEN {<<>>}
    ELSE LET shorter == SeqsUpTo(n - 1) IN
         shorter \cup {Append(q, c) : q \in {x \in shorter : Len(x) = n - 1}, c \in Names}

PathArgs == {PathArg(abs, comps) : abs \in BOOLEAN, comps \in SeqsUpTo(MaxPathLen)}

\* Path.resolve() on a file system without symbolic links: ".." drops the
\* last component and stays at the root
RECURSIVE Normalize(_, _)
Normalize(stack, rest) ==
    IF rest = <<>> THEN stack
    ELSE IF Head(rest) = ".."
         THEN Normalize(IF stack = <<>> THEN <<>> ELSE SubSeq(stack, 1, Len(stack) - 1),
                        Tail(rest))
         ELSE Normalize(Append(stack, Head(rest)), Tail(rest))

\* Path(path).resolve(): a relative path is taken from the working directory
Resolve(path) == Normalize(IF path.abs THEN <<>> ELSE Cwd, path.comps)

\* str(Path)
RECURSIVE JoinPath(_)
JoinPath(comps) ==
    IF comps = <<>> THEN "" ELSE "/" \o Head(comps) \o JoinPath(Tail(comps))

PathStr(comps) == IF comps = <<>> THEN "/" ELSE JoinPath(comps)

\* str.startswith
StartsWith(str, prefix) ==
    Len(str) >= Len(prefix) /\ SubSeq(str, 1, Len(prefix)) = prefix

\* `str(target).startswith(str(base))` (line 88)
PathCheck(target, base) == StartsWith(PathStr(target), PathStr(base))

\* is_path_permitted (lines 76-91): whether it returns (rather than raises
\* PermissionError)
IsPathPermitted(path) == PathCheck(Resolve(path), Cwd)

\* target is base or lies below it, component by component
WithinRoot(target, base) ==
    Len(target) >= Len(base) /\ SubSeq(target, 1, Len(base)) = base

----------------------------------------------------------------------------
(* Tool bodies: what the undecorated function does *)

\* A tool invocation: how the arguments fit the signature ("ok", "missing":
\* a required argument is not given, "extra": an argument the signature does
\* not have), the arguments, and what the file system does if it is reached
ToolCall(tool, shape, path, text, edits, fs) ==
    [tool |-> tool, shape |-> shape, path |-> path, text |-> text,
     edits |-> edits, fs |-> fs]

NoPath == PathArg(FALSE, <<>>)

NoToolCall == ToolCall("none", "ok", NoPath, "", <<>>, "ok")

\* What a tool body does: returns a (msg, result) tuple, returns a string,
\* or raises; `access` are the resolved paths it read or listed
ReturnsTuple(msg, items, access) ==
    [kind |-> "tuple", msg |-> msg, items |-> items, text |-> "", access |-> access]
ReturnsStr(text) ==
    [kind |-> "str", msg |-> "", items |-> <<>>, text |-> text, access |-> {}]
Raises(err, access) ==
    [kind |-> "raise", msg |-> "", items |-> <<>>, text |-> err, access |-> access]

\* func(*args, **kwargs) without a required argument: TypeError
MissingArgument == Raises("missing 1 required positional argument", {})

PermissionError == Raises("error: path escapes project directory", {})

FileText == "a\nb"

DirEntries == <<"a.txt", "src">>

\* result.count("\n")
RECURSIVE CountNewlines(_)
CountNewlines(str) ==
    IF Len(str) = 0 THEN 0
    ELSE (IF SubSeq(str, 1, 1) = "\n" THEN 1 ELSE 0)
             + CountNewlines(SubSeq(str, 2, Len(str)))

NumText(n) == CASE n = 0 -> "0" [] n = 1 -> "1" [] n = 2 -> "2" [] OTHER -> "3"

\* read_file (lines 95-106)
ReadFileBody(call) ==
    IF call.shape = "missing" THEN MissingArgument
    ELSE IF ~IsPathPermitted(call.path) THEN PermissionError
    ELSE LET target == Resolve(call.path) IN
         CASE call.fs = "missing" -> Raises("No such file or directory", {target})
           [] call.fs = "ioerror" -> Raises("Input/output error", {target})
           [] OTHER -> ReturnsTuple("Read " \o NumText(CountNewlines(FileText) + 1) \o " lines",
                                    <<FileText>>, {target})

\* list_files (lines 110-121)
ListFilesBody(call) ==
    IF call.shape = "missing" THEN MissingArgument
    ELSE IF ~IsPathPermitted(call.path) THEN PermissionError
    ELSE LET target == Resolve(call.path) IN
         CASE call.fs = "missing" -> Raises("No such file or directory", {target})
           [] call.fs = "ioerror" -> Raises("Input/output error", {target})
           [] OTHER -> ReturnsTuple("Listed " \o NumText(Len(DirEntries)), DirEntries, {target})

\* The path argument as the caller wrote it
RECURSIVE JoinNames(_)
JoinNames(comps) ==
    IF comps = <<>> THEN ""
    ELSE IF Len(comps) = 1 THEN Head(comps)
    ELSE Head(comps) \o "/" \o JoinNames(Tail(comps))

PathText(path) == (IF path.abs THEN "/" ELSE "") \o JoinNames(path.comps)

\* The string edit_file builds (line 134); the path is used as text only
EditInstructions(call) ==
    "To edit the file '" \o PathText(call.path) \o "', follow these instructions:\n"
        \o call.text
        \o "\n\nNote: I cannot directly edit the file. You need to manually make these changes."

\* edit_file (lines 125-134)
EditFileBody(call) ==
    IF call.shape = "missing" THEN MissingArgument ELSE ReturnsStr(EditInstructions(call))

\* get_buffer_content (lines 62-70)
GetBufferContentBody(call) ==
    IF call.shape = "missing" THEN MissingArgument
    ELSE ReturnsTuple("Buffer " \o call.text \o " content requested", <<>>, {})

\* get_visual_selection (lines 73-76)
GetVisualSelectionBody(call) == ReturnsTuple("Visual selection requested", <<>>, {})

\* One edit of apply_edit's list: its "type", and whether the keys its
\* branch reads are there
Edit(type, complete) == [type |-> type, complete |-> complete]

\* The line apply_edit appends for one edit (lines 89-100); "" for a type
\* no branch takes
EditLine(e) ==
    CASE e.type = "replace" -> "Replace lines 1-2: t"
      [] e.type = "insert"  -> "Insert at line 1: t"
      [] e.type = "delete"  -> "Delete lines 1-2"
      [] OTHER -> ""

\* "\n".join(edit_instructions) over the edits that append a line
RECURSIVE JoinLines(_)
JoinLines(edits) ==
    IF edits = <<>> THEN ""
    ELSE IF EditLine(Head(edits)) = "" THEN JoinLines(Tail(edits))
    ELSE IF JoinLines(Tail(edits)) = "" THEN EditLine(Head(edits))
    ELSE EditLine(Head(edits)) \o "\n" \o JoinLines(Tail(edits))

\* The string apply_edit builds (line 102)
ApplyEditInstructions(call) == "Edit operations to apply:\n" \o JoinLines(call.edits)

\* apply_edit (lines 79-102): a branch whose keys are missing raises KeyError
ApplyEditBody(call) ==
    IF call.shape = "missing" THEN MissingArgument
    ELSE IF \E i \in 1..Len(call.edits) :
                /\ call.edits[i].type \in {"replace", "insert", "delete"}
                /\ ~call.edits[i].complete
    THEN Raises("'text'", {})
    ELSE ReturnsStr(ApplyEditInstructions(call))

ToolBody(call) ==
    CASE call.tool = "read_file"            -> ReadFileBody(call)
      [] call.tool = "list_files"           -> ListFilesBody(call)
      [] call.tool = "edit_file"            -> EditFileBody(call)
      [] call.tool = "get_buffer_content"   -> GetBufferContentBody(call)
      [] call.tool = "get_visual_selection" -> GetVisualSelectionBody(call)
      [] OTHER                              -> ApplyEditBody(call)

----------------------------------------------------------------------------
(* tool_ui: the wrapper around every tool *)

\* What the wrapper hands back: the payload of a (msg, result) tuple, or a
\* string; failed: the except branch ran (console prints "Error")
Payload(items) == [kind |-> "payload", items |-> items, text |-> "", failed |-> FALSE]
Text(str) == [kind |-> "text", items |-> <<>>, text |-> str, failed |-> FALSE]
Failure(err) ==
    [kind |-> "text", items |-> <<>>,
     text |-> "tool call failed with error: " \o err, failed |-> TRUE]
NoToolReturn == [kind |-> "none", items |-> <<>>, text |-> "", failed |-> FALSE]

\* `msg, result = func(*args, **kwargs)` (line 63) on a returned string:
\* a string unpacks into its characters, so only a two-character string fits
UnpackStr(str) ==
    IF Len(str) = 2 THEN Text(SubSeq(str, 2, 2))
    ELSE IF Len(str) > 2 THEN Failure("too many values to unpack (expected 2)")
    ELSE Failure("not enough values to unpack (expected 2)")

\* The try block (lines 62-71)
Execute(ret) ==
    CASE ret.kind = "tuple" -> Payload(ret.items)
      [] ret.kind = "str"   -> UnpackStr(ret.text)
      [] OTHER              -> Failure(ret.text)

\* sig.bind_partial(*args, **kwargs) (line 53) raises TypeError on an argument
\* the signature does not have; it stands before the try block
BindRaises(call) == call.shape = "extra"

----------------------------------------------------------------------------
(* LagosRPCServer.run: one line read, handled and answered *)

Init ==
    /\ history = <<>>
    /\ current_buffer = JNull
    /\ visual_selection = JNull
    /\ running = TRUE
    /\ exitCode = 0
    /\ request = NoRequest
    /\ outcome = NotCalled
    /\ response = NoResponse
    /\ history0 = <<>>
    /\ buffer0 = JNull
    /\ selection0 = JNull
    /\ toolCall = NoToolCall
    /\ toolReturn = NoToolReturn
    /\ toolRaised = FALSE
    /\ fsAccess = {}
    /\ agent_history = <<>>
    /\ agentRunning = TRUE

\* The for loop of run() waits for a line (line 295)
AwaitingLine == running /\ request = NoRequest

\* Lines 295-303 and 315-317 for a line that json.loads accepts: the line is
\* read, handled and answered; histories longer than maxLen are left out
Answer(req, out, maxLen) ==
    /\ out = NotCalled <=> ~CallsModel(current_buffer, req)
    /\ LET r == HandleRequest(history, current_buffer, visual_selection, req, out) IN
       /\ Len(r.hist) <= maxLen
       /\ request' = req
       /\ outcome' = out
       /\ history0' = history
       /\ buffer0' = current_buffer
       /\ selection0' = visual_selection
       /\ history' = r.hist
       /\ current_buffer' = r.buf
       /\ visual_selection' = r.sel
       /\ IF r.intr
          THEN /\ response' = NoResponse       \* except KeyboardInterrupt: pass
               /\ running' = FALSE
               /\ UNCHANGED exitCode
          ELSE IF r.exc
          THEN /\ response' = NoResponse       \* except Exception: sys.exit(1)
               /\ running' = FALSE
               /\ exitCode' = 1
          ELSE /\ response' = r.resp           \* print(json.dumps(response))
               /\ UNCHANGED <<running, exitCode>>

\* A line to the RPC server alone
Line(req, out) ==
    /\ Answer(req, out, MaxHist)
    /\ UNCHANGED <<toolVars, agentVars>>

\* A parse error response (lines 305-309)
ParseErrorResponse_InvalidRequest == ErrorResponse("null", -32600, "Invalid Request", FALSE)

\* The response of the except json.JSONDecodeError clause (lines 304-311)
ParseErrorResponse == ErrorResponse("null", -32700, "Parse error", FALSE)

\* A line handled without touching the server state: what was read, what
\* was printed for it
Untouched(req, out, resp) ==
    /\ request' = req
    /\ outcome' = out
    /\ response' = resp
    /\ history0' = history
    /\ buffer0' = current_buffer
    /\ selection0' = visual_selection
    /\ UNCHANGED <<history, current_buffer, visual_selection>>
    /\ UNCHANGED <<toolVars, agentVars>>

\* Line 295: the for loop goes back to sys.stdin for the next line; the
\* locals of the iteration that ended (request, response) are dead
NextLine ==
    /\ running
    /\ request # NoRequest
    /\ request' = NoRequest
    /\ outcome' = NotCalled
    /\ response' = NoResponse
    /\ history0' = history
    /\ buffer0' = current_buffer
    /\ selection0' = visual_selection
    /\ UNCHANGED <<history, current_buffer, visual_selection, running, exitCode>>
    /\ UNCHANGED <<toolVars, agentVars>>

AnyOutcome == Outcomes \cup {NotCalled}

Chat ==
    /\ AwaitingLine
    /\ \E p \in ChatParams, id \in Ids, out \in AnyOutcome : Line(Req("chat", p, id), out)

Ask ==
    /\ AwaitingLine
    /\ \E p \in ChatParams, id \in Ids, out \in AnyOutcome : Line(Req("ask", p, id), out)

Explain ==
    /\ AwaitingLine
    /\ \E p \in CodeParams, id \in Ids, out \in AnyOutcome : Line(Req("explain", p, id), out)

Fix ==
    /\ AwaitingLine
    /\ \E p \in FixParams, id \in Ids, out \in AnyOutcome : Line(Req("fix", p, id), out)

Refactor ==
    /\ AwaitingLine
    /\ \E p \in CodeParams, id \in Ids, out \in AnyOutcome : Line(Req("refactor", p, id), out)

SetContext ==
    /\ AwaitingLine
    /\ \E p \in ContextParams, id \in Ids : Line(Req("set_context", p, id), NotCalled)

GetHistory ==
    /\ AwaitingLine
    /\ \E id \in Ids : Line(Req("get_history", ParamsAbsent, id), NotCalled)

ClearHistory ==
    /\ AwaitingLine
    /\ \E id \in Ids : Line(Req("clear_history", ParamsAbsent, id), NotCalled)

\* A method outside the if/elif chain, or no method field at all
UnknownMethod ==
    /\ AwaitingLine
    /\ \E m \in {"bogus", "absent"}, p \in {ParamsAbsent, ParamsNonDict}, id \in Ids :
           Line(Req(m, p, id), NotCalled)

\* A line holding a JSON value that is no object
NonObjectLine ==
    /\ AwaitingLine
    /\ Line(NonObjectReq, NotCalled)

\* A line that is not JSON: json.loads raises JSONDecodeError (lines 300, 304-311)
MalformedLine ==
    /\ AwaitingLine
    /\ Untouched(MalformedLineReq, NotCalled, ParseErrorResponse)
    /\ UNCHANGED <<running, exitCode>>

\* A blank line: `if not line.strip(): continue` (lines 296-297)
BlankLine ==
    /\ AwaitingLine
    /\ Untouched(BlankLineReq, NotCalled, NoResponse)
    /\ UNCHANGED <<running, exitCode>>

\* KeyboardInterrupt while a line that calls no model is handled, before the
\* handler has changed anything: it passes `except Exception` (line 137) and
\* the JSONDecodeError clause and ends run() at line 313
InterruptedLine ==
    /\ AwaitingLine
    /\ \E m \in {"get_history", "clear_history"}, id \in Ids :
           Untouched(Req(m, ParamsAbsent, id), Interrupt, NoResponse)
    /\ running' = FALSE
    /\ UNCHANGED exitCode

Next ==
    \/ Chat
    \/ Ask
    \/ Explain
    \/ Fix
    \/ Refactor
    \/ SetContext
    \/ GetHistory
    \/ ClearHistory
    \/ UnknownMethod
    \/ NonObjectLine
    \/ MalformedLine
    \/ BlankLine
    \/ InterruptedLine
    \/ NextLine

Spec == Init /\ [][Next]_vars

----------------------------------------------------------------------------
(* Tool invocations through the wrapper *)

FsOutcomes == {"ok", "missing", "ioerror"}

Shapes == {"ok", "missing", "extra"}

EditLists ==
    {<<>>, <<Edit("replace", TRUE)>>, <<Edit("insert", TRUE), Edit("delete", TRUE)>>,
     <<Edit("move", TRUE)>>, <<Edit("replace", FALSE)>>}

\* wrapper(*args, **kwargs) (lines 51-71)
Invoke(call) ==
    /\ toolCall' = call
    /\ IF BindRaises(call)
       THEN /\ toolRaised' = TRUE
            /\ toolReturn' = NoToolReturn
            /\ fsAccess' = {}
       ELSE /\ toolRaised' = FALSE
            /\ toolReturn' = Execute(ToolBody(call))
            /\ fsAccess' = ToolBody(call).access
    /\ UNCHANGED <<rpcVars, agentVars>>

\* No tool invocation is in progress
NoCallInFlight == toolCall = NoToolCall

ReadFile ==
    /\ NoCallInFlight
    /\ \E sh \in Shapes, path \in PathArgs, fs \in FsOutcomes :
           Invoke(ToolCall("read_file", sh, path, "", <<>>, fs))

ListFiles ==
    /\ NoCallInFlight
    /\ \E sh \in Shapes, path \in PathArgs, fs \in FsOutcomes :
           Invoke(ToolCall("list_files", sh, path, "", <<>>, fs))

EditFile ==
    /\ NoCallInFlight
    /\ \E sh \in Shapes, path \in {PathArg(FALSE, <<"a.txt">>)}, text \in {"", "do x"} :
           Invoke(ToolCall("edit_file", sh, path, text, <<>>, "ok"))

GetBufferContent ==
    /\ NoCallInFlight
    /\ \E sh \in Shapes : Invoke(ToolCall("get_buffer_content", sh, NoPath, "1", <<>>, "ok"))

GetVisualSelection ==
    /\ NoCallInFlight
    /\ \E sh \in {"ok", "extra"} :
           Invoke(ToolCall("get_visual_selection", sh, NoPath, "", <<>>, "ok"))

ApplyEdit ==
    /\ NoCallInFlight
    /\ \E sh \in Shapes, edits \in EditLists :
           Invoke(ToolCall("apply_edit", sh, NoPath, "1", edits, "ok"))

\* The caller has taken what the wrapper returned or raised (line 71); the
\* next invocation starts from a fresh frame
CallerResumes ==
    /\ ~NoCallInFlight
    /\ toolCall' = NoToolCall
    /\ toolReturn' = NoToolReturn
    /\ toolRaised' = FALSE
    /\ fsAccess' = {}
    /\ UNCHANGED <<rpcVars, agentVars>>

NextTools ==
    \/ ReadFile
    \/ ListFiles
    \/ EditFile
    \/ GetBufferContent
    \/ GetVisualSelection
    \/ ApplyEdit
    \/ CallerResumes

SpecTools == Init /\ [][NextTools]_vars

----------------------------------------------------------------------------
(* The interactive loop Agent.run beside the chat handler: both are given
   the same user input and the same behaviour of the model *)

\* str.strip() on texts of letters and spaces
RECURSIVE StripLeft(_)
StripLeft(str) ==
    IF Len(str) > 0 /\ SubSeq(str, 1, 1) = " "
    THEN StripLeft(SubSeq(str, 2, Len(str)))
    ELSE str

RECURSIVE StripRight(_)
StripRight(str) ==
    IF Len(str) > 0 /\ SubSeq(str, Len(str), Len(str)) = " "
    THEN StripRight(SubSeq(str, 1, Len(str) - 1))
    ELSE str

Strip(str) == StripRight(StripLeft(str))

\* The loop over parts of Agent.run: the text gathered
RECURSIVE AssistantText(_)
AssistantText(parts) ==
    IF parts = <<>> THEN ""
    ELSE Head(parts).text \o AssistantText(Tail(parts))

\* What an iteration of the while loop leaves: the history, and whether
\* run() was left
AgentContinues(h) == [hist |-> h, left |-> FALSE]
AgentLeaves(h)    == [hist |-> h, left |-> TRUE]

\* One iteration of the while loop of Agent.run on the input user_input
AgentIteration(h, user_input, out) ==
    IF Strip(user_input) = "" THEN AgentContinues(h)
    ELSE LET asked == Append(h, Turn("user", user_input)) IN
         CASE out.kind = "raise"     -> AgentContinues(asked)  \* except Exception: continue
           [] out.kind = "interrupt" -> AgentLeaves(asked)     \* no Exception: run() is left
           [] out.kind = "nocand"    -> AgentContinues(asked)
           [] out.kind = "noparts"   -> AgentLeaves(asked)     \* for part in None, outside the try
           [] OTHER ->
                IF Strip(AssistantText(out.parts)) = ""
                THEN AgentContinues(asked)
                ELSE AgentContinues(Append(asked, Turn("model", AssistantText(out.parts))))

UserInputs == {"hi"}

AgentParts == {<<TextPart("ok")>>, <<TextPart(" ")>>, <<CallPart("read_file")>>}

AgentOutcomes ==
    {ModelRaises, NoCandidates, NoPartList, Interrupt} \cup {Candidate(p) : p \in AgentParts}

\* The user's input goes to Agent.run and, as the message of a chat request,
\* to the RPC server; the model behaves the same way for both
SameTurn ==
    /\ AwaitingLine
    /\ agentRunning
    /\ \E m \in UserInputs, out \in AgentOutcomes :
           /\ Answer(Req("chat", ParamsDict([NoParams EXCEPT !.message = JStr(m)]), "i1"),
                     out, MaxTurns)
           /\ LET a == AgentIteration(agent_history, m, out) IN
              /\ agent_history' = a.hist
              /\ agentRunning' = ~a.left
    /\ UNCHANGED toolVars

\* End of input: Prompt.ask raises EOFError and run() returns; the for loop
\* over sys.stdin ends
EndOfInput ==
    /\ AwaitingLine
    /\ agentRunning
    /\ agentRunning' = FALSE
    /\ running' = FALSE
    /\ UNCHANGED <<history, current_buffer, visual_selection, exitCode, request,
                   outcome, response, history0, buffer0, selection0>>
    /\ UNCHANGED <<toolVars, agent_history>>

NextAgent ==
    \/ SameTurn
    \/ EndOfInput
    \/ NextLine

SpecAgent == Init /\ [][NextAgent]_vars

----------------------------------------------------------------------------
(* Properties of the RPC server, checked under Spec *)

\* The line of this iteration was a JSON object asking for a chat
ChatLike == request.shape = "object" /\ request.method \in ChatMethods

\* The line of this iteration was a JSON object naming method m
Asked(m) == request.shape = "object" /\ request.method = m

\* The line of this iteration was handled to its end (no KeyboardInterrupt)
Uninterrupted == request # NoRequest /\ outcome # Interrupt

ContextKept == current_buffer = buffer0 /\ visual_selection = selection0

\* history is history0 with n turns appended
Grew(n) ==
    /\ Len(history) = Len(history0) + n
    /\ SubSeq(history, 1, Len(history0)) = history0

\* C1: a chat, ask, explain, fix or refactor request that ends in an error
\* response leaves history either as it was or with the complete turn (user
\* turn and model turn); never with the user turn alone.
C1_NoPartialTurn ==
    (ChatLike /\ response.kind = "error") =>
        \/ history = history0
        \/ (Grew(2) /\ history[Len(history)].role = "model")

\* C3: every line that parses as JSON is answered and the loop goes on; a
\* failure that is neither "method not found" nor "invalid params" is answered
\* with code -32603 and diagnostic detail (the traceback as data, or the
\* text of the exception as message).
C3_LoopSurvives ==
    (request.shape \in {"object", "other"} /\ Uninterrupted) =>
        /\ running
        /\ exitCode = 0
        /\ response.kind # "none"
        /\ (response.kind = "error" /\ response.code \notin {-32601, -32602}) =>
               /\ response.code = -32603
               /\ (response.data \/ response.text \notin {"", "Internal error"})

\* C4: once a chat has taken the stored context into its user message, a
\* chat that follows with no set_context in between appends its message
\* without a context prefix. Stated on the state the first chat leaves: the
\* user message the following chat appends for m (lines 158-171) is m itself.
C4_ContextConsumedOnce ==
    (/\ ChatLike
     /\ Len(history) > Len(history0)
     /\ (Truthy(buffer0) \/ Truthy(selection0))) =>
        \A m \in Messages : ContextMessage(current_buffer, visual_selection, m) = m

\* C5: a chat appends the user turn before the model is called, and appends
\* a model turn only if the candidate held some text: with no text, history
\* grows by the user turn alone.
C5_ModelTurnOnlyIfText ==
    /\ outcome \notin {NotCalled, Interrupt} =>
           /\ Len(history) > Len(history0)
           /\ history[Len(history0) + 1].role = "user"
    /\ (outcome.kind = "parts" /\ ResponseText(outcome.parts) = "") =>
           (Grew(1) /\ history[Len(history)].role = "user")

\* C6: the response to a request that is a JSON object carries the request's
\* id, and null when the request has no id field, whatever the method and
\* whatever the outcome of the model call.
C6_IdEcho ==
    (request.shape = "object" /\ Uninterrupted) =>
        /\ response.kind \in {"result", "error"}
        /\ response.id = (IF request.id = "absent" THEN "null" ELSE request.id)

\* An internal error (code -32603 with a traceback) answering a request that
\* carries an id
C6_Witness ==
    /\ request.shape = "object"
    /\ request.id = "i1"
    /\ response.kind = "error"
    /\ response.code = -32603
    /\ response.data
    /\ response.id = "i1"

\* C9: a chat or ask request whose params (an object, or absent) hold no
\* message field is answered with error -32602, and history stays as it was.
C9_MissingMessage ==
    (/\ request.shape = "object"
     /\ request.method \in {"chat", "ask"}
     /\ request.params.kind \in {"dict", "absent"}
     /\ request.params.d.message.t = "missing") =>
        /\ response.kind = "error"
        /\ response.code = -32602
        /\ history = history0

\* A chat without message, answered -32602, in a state with a turn in
\* history and a stored buffer and selection
C9_Witness ==
    /\ request.shape = "object"
    /\ request.method = "chat"
    /\ request.params.kind = "dict"
    /\ request.params.d.message.t = "missing"
    /\ response.code = -32602
    /\ history0 # <<>>
    /\ history = history0
    /\ Truthy(current_buffer)
    /\ Truthy(visual_selection)

\* C10: when the model response has no candidates, the chat is answered with
\* the "No response from AI" result, not an error, and history is the
\* history before plus exactly one user turn.
C10_ZeroCandidates ==
    outcome.kind = "nocand" =>
        /\ response.kind = "result"
        /\ response.text = "No response from AI"
        /\ Grew(1)
        /\ history[Len(history)].role = "user"

\* A chat answered "No response from AI" after an earlier complete turn
C10_Witness ==
    /\ outcome.kind = "nocand"
    /\ request.method = "chat"
    /\ response.kind = "result"
    /\ response.text = "No response from AI"
    /\ Len(history0) > 0
    /\ Len(history) = Len(history0) + 1

\* C11: a line that is not valid JSON is answered once, with id null and
\* code -32700; history and editor context stay as they were and the loop
\* goes on, so the next line meets the state the malformed line found.
C11_ParseError ==
    request.shape = "malformed" =>
        /\ response.kind = "error"
        /\ response.id = "null"
        /\ response.code = -32700
        /\ history = history0
        /\ ContextKept
        /\ running
        /\ exitCode = 0

\* A malformed line answered in a state with history and context
C11_Witness ==
    /\ request.shape = "malformed"
    /\ response.code = -32700
    /\ history # <<>>
    /\ Truthy(current_buffer)
    /\ running

\* C12: for every request but clear_history the history before is a prefix
\* of the history after; clear_history leaves the empty history, and
\* get_history returns the turns of the history it found, so get_history
\* after clear_history returns no turns.
C12_AppendOnly ==
    /\ (request # NoRequest /\ ~Asked("clear_history")) =>
           /\ Len(history0) <= Len(history)
           /\ SubSeq(history, 1, Len(history0)) = history0
    /\ (Asked("clear_history") /\ Uninterrupted) => history = <<>>
    /\ (Asked("get_history") /\ Uninterrupted) =>
           /\ response.kind = "result"
           /\ response.turns = history0
           /\ history = history0

\* clear_history answered on a history that held turns
C12_Witness ==
    /\ Asked("clear_history")
    /\ response.kind = "result"
    /\ Len(history0) = MaxHist
    /\ history = <<>>

\* C13: a request whose method is none of the eight (or has no method field)
\* is answered with error -32601, and history and editor context stay as
\* they were.
C13_UnknownMethod ==
    (/\ request.shape = "object"
     /\ request.method \notin {"chat", "ask", "explain", "fix", "refactor",
                               "set_context", "get_history", "clear_history"}) =>
        /\ response.kind = "error"
        /\ response.code = -32601
        /\ history = history0
        /\ ContextKept

\* A request without method field answered -32601 in a state with history
\* and context
C13_Witness ==
    /\ Asked("absent")
    /\ response.code = -32601
    /\ history # <<>>
    /\ Truthy(visual_selection)

\* C14: every non-blank line produces exactly one output line, which answers
\* that line, before the next line is read; a blank line produces none and
\* changes nothing.
C14_OneResponsePerLine ==
    /\ (request.shape \in {"object", "other", "malformed"} /\ Uninterrupted) =>
           /\ response.kind \in {"result", "error"}
           /\ running
    /\ request.shape = "blank" =>
           /\ response.kind = "none"
           /\ history = history0
           /\ ContextKept
           /\ running

\* The chat request a request of another method stands for
AsChat(req) ==
    LET message ==
            CASE req.method = "explain"  -> ExplainMessage(req.params.d)
              [] req.method = "fix"      -> FixMessage(req.params.d)
              [] OTHER                   -> RefactorMessage(req.params.d)
    IN IF req.method = "ask"
       THEN Req("chat", req.params, req.id)
       ELSE Req("chat", ParamsDict([NoParams EXCEPT !.message = JStr(message)]), req.id)

\* C15: ask with params p leaves the response and the history that chat
\* with p leaves, and explain, fix and refactor (params an object or absent)
\* leave those of chat with their templated message, from the same state
\* and with the same behaviour of the model.
C15_BehaveAsChat ==
    (/\ request.shape = "object"
     /\ request.method \in {"ask", "explain", "fix", "refactor"}
     /\ (request.method = "ask" \/ request.params.kind # "nondict")) =>
        LET c == HandleRequest(history0, buffer0, selection0, AsChat(request), outcome)
        IN /\ history = c.hist
           /\ response = c.resp
           /\ ContextKept

\* explain answered with text, its templated message prefixed with the
\* stored buffer
C15_Witness ==
    /\ Asked("explain")
    /\ Truthy(buffer0)
    /\ response.kind = "result"
    /\ response.text = "ok"
    /\ Len(history) = Len(history0) + 2

\* C16: KeyboardInterrupt while a line is handled, the model call included,
\* ends the read loop with no response for that line and without the
\* exit(1) path.
C16_InterruptEndsLoop ==
    outcome = Interrupt =>
        /\ ~running
        /\ response.kind = "none"
        /\ exitCode = 0

\* A chat interrupted during the model call, its user turn already appended
C16_Witness ==
    /\ outcome = Interrupt
    /\ Asked("chat")
    /\ Len(history) = Len(history0) + 1
    /\ ~running

\* C17: every model turn of history directly follows a user turn.
C17_HistoryShape ==
    \A i \in 1..Len(history) :
        history[i].role = "model" => (i > 1 /\ history[i - 1].role = "user")

\* A history whose last turn is the model turn of the chat just answered
C17_Witness ==
    /\ ChatLike
    /\ Len(history) = Len(history0) + 2
    /\ history[Len(history)].role = "model"
    /\ history[Len(history) - 1].role = "user"

\* C18: set_context (params an object or absent) stores params' buffer and
\* selection, None for a field params lacks, and leaves history alone;
\* clear_history leaves the stored context alone.
C18_SetContext ==
    /\ (Asked("set_context") /\ request.params.kind # "nondict") =>
           /\ current_buffer =
                  (IF request.params.d.buffer.t = "missing"
                   THEN JNull ELSE request.params.d.buffer)
           /\ visual_selection =
                  (IF request.params.d.selection.t = "missing"
                   THEN JNull ELSE request.params.d.selection)
           /\ history = history0
    /\ Asked("clear_history") => ContextKept

\* set_context without buffer field on a stored buffer
C18_Witness ==
    /\ Asked("set_context")
    /\ request.params.kind = "dict"
    /\ request.params.d.buffer.t = "missing"
    /\ Truthy(buffer0)
    /\ current_buffer = JNull
    /\ history # <<>>

\* The request holds a message that passes `if not message`
HasMessage ==
    /\ ChatLike
    /\ request.params.kind # "nondict"
    /\ request.method \in {"chat", "ask"} =>
           (request.params.d.message.t = "str" /\ request.params.d.message.s # "")

\* C19: a chat whose stored buffer descriptor has no name is answered with
\* error -32603 and history as it was; the buffer stays stored, and only
\* set_context changes it, so later chats fail the same way until then.
C19_PrefixFailure ==
    /\ (HasMessage /\ buffer0.t = "objNoName" /\ Uninterrupted) =>
           /\ response.kind = "error"
           /\ response.code = -32603
           /\ history = history0
           /\ current_buffer = buffer0
    /\ (request # NoRequest /\ ~Asked("set_context")) => current_buffer = buffer0

\* A chat failing on the nameless buffer with turns in history
C19_Witness ==
    /\ Asked("chat")
    /\ HasMessage
    /\ buffer0.t = "objNoName"
    /\ response.code = -32603
    /\ response.data
    /\ history0 # <<>>
    /\ history = history0

----------------------------------------------------------------------------
(* Properties of the tool layer, checked under SpecTools *)

\* C2: a path argument of read_file or list_files that resolves outside the
\* project root (neither the root nor below it, component by component)
\* makes is_path_permitted raise the permission error, and nothing is read
\* or listed.
C2_PathConfinement ==
    (/\ toolCall.tool \in {"read_file", "list_files"}
     /\ toolCall.shape = "ok"
     /\ ~WithinRoot(Resolve(toolCall.path), Cwd)) =>
        /\ fsAccess = {}
        /\ toolReturn = Failure("error: path escapes project directory")

\* C7: the edit tool (edit_file, apply_edit), called through the wrapper
\* with arguments that fit, returns the instruction string its body built,
\* and is not reported as a failure.
C7_EditToolReturnsText ==
    (/\ toolCall.tool \in {"edit_file", "apply_edit"}
     /\ toolCall.shape = "ok"
     /\ ToolBody(toolCall).kind = "str") =>
        /\ ~toolRaised
        /\ ~toolReturn.failed
        /\ toolReturn.kind = "text"
        /\ toolReturn.text = ToolBody(toolCall).text

\* C8: no invocation of a wrapped tool raises to its caller: every failure,
\* a mismatch between arguments and signature included, comes back as a
\* textual failure message.
C8_NoEscape ==
    toolCall # NoToolCall =>
        /\ ~toolRaised
        /\ (toolCall.shape # "ok" \/ ToolBody(toolCall).kind = "raise") =>
               (toolReturn.kind = "text" /\ toolReturn.failed)

----------------------------------------------------------------------------
(* Agent.run and the chat handler, checked under SpecAgent *)

\* C20: given the same non-blank user messages and the same model outcomes,
\* Agent.run and the chat handler with no editor context hold the same
\* history.
C20_SameHistory == history = agent_history

====
